---------------------------- MODULE Spec2Model ----------------------------
(***************************************************************************)
(* ProjectTimeline (static/js/timeline.js): the canvas Gantt view, its     *)
(* layout, rendering, hit-testing, pointer interaction and public API,     *)
(* as a state machine over the view object, its canvas and the listeners   *)
(* registered for it.                                                      *)
(*                                                                         *)
(* Dates are Date values in whole seconds since 1970-01-01T00:00Z (the     *)
(* millisecond values of the source divided by 1000).  Pixel coordinates   *)
(* are JavaScript numbers: exact fractions n/d with d > 0, and the three   *)
(* non-finite values with d = 0 (n = 1: Infinity, n = -1: -Infinity,       *)
(* n = 0: NaN).                                                            *)
(***************************************************************************)
EXTENDS Integers, Sequences, FiniteSets, TLC

VARIABLES
    view,        \* the ProjectTimeline object's fields
    canvas,      \* the canvas element: width/height attributes, style, and
                 \* the text baseline its 2d context is left with
    surface,     \* what the last drawing pass left on the canvas
    listeners,   \* listeners registered on the canvas and the window
    timeout,     \* the debounce closure's variable: the last timer id it was given
    timers,      \* the window's pending timers: id and milliseconds left
    burst,       \* history: resize events since the last relayout was followed
                 \* by one, milliseconds since the last of them, relayouts since
    env,         \* container.offsetWidth, devicePixelRatio, the clock
    renderCount, \* number of render() passes so far (stamps element objects)
    op,          \* the operation or event handled by the last step
    rendered,    \* number of render() passes the last step performed
    thrown,      \* the error the last step threw, or "none"
    calls,       \* the option callbacks the last step invoked
    destroyed,   \* destroy() has been called
    returned,    \* the value the last call of a query method returned
    steps,       \* number of operations and events handled so far
    page         \* the dashboard script (static/js/dashboard.js): its globals,
                 \* its pending async runs and the drill-down modal

vars == <<view, canvas, surface, listeners, timeout, timers, burst, env, renderCount,
          op, rendered, thrown, calls, destroyed, returned, steps, page>>

\* an optional value (null or undefined in the source): None, or Some(x)
None == << >>
Some(x) == << x >>
IsSome(o) == o # None
Get(o) == o[1]

-----------------------------------------------------------------------------
(* Bounds of the exploration *)

\* operations and events handled after construction
MaxSteps == 3

-----------------------------------------------------------------------------
(* JavaScript numbers *)

RECURSIVE Gcd(_, _)
Gcd(a, b) == IF b = 0 THEN a ELSE Gcd(b, a % b)

Abs(a) == IF a < 0 THEN -a ELSE a

NaN == [n |-> 0, d |-> 0]
PosInf == [n |-> 1, d |-> 0]
NegInf == [n |-> -1, d |-> 0]

I(k) == [n |-> k, d |-> 1]

\* n/d for integers n, d: the JavaScript quotient
Quot(n, d) ==
    IF d = 0
    THEN (IF n = 0 THEN NaN ELSE IF n > 0 THEN PosInf ELSE NegInf)
    ELSE LET g == Gcd(Abs(n), Abs(d))
             s == IF d < 0 THEN -1 ELSE 1
         IN  [n |-> (s * n) \div g, d |-> (s * d) \div g]

IsNaN(a) == a.d = 0 /\ a.n = 0
IsFinite(a) == a.d > 0

NumAdd(a, b) ==
    IF IsNaN(a) \/ IsNaN(b) THEN NaN
    ELSE IF IsFinite(a) /\ IsFinite(b) THEN Quot(a.n * b.d + b.n * a.d, a.d * b.d)
    ELSE IF IsFinite(a) THEN b
    ELSE IF IsFinite(b) THEN a
    ELSE IF a.n = b.n THEN a ELSE NaN

NumNeg(a) == [n |-> -a.n, d |-> a.d]

NumSub(a, b) == NumAdd(a, NumNeg(b))

\* a * k for an integer k
NumMul(a, k) ==
    IF IsNaN(a) THEN NaN
    ELSE IF IsFinite(a) THEN Quot(a.n * k, a.d)
    ELSE IF k = 0 THEN NaN
    ELSE IF k > 0 THEN a ELSE NumNeg(a)

\* a < b and a <= b: false whenever an operand is NaN
NumLt(a, b) ==
    /\ ~IsNaN(a)
    /\ ~IsNaN(b)
    /\ IF IsFinite(a) /\ IsFinite(b) THEN a.n * b.d < b.n * a.d
       ELSE IF IsFinite(a) THEN b.n > 0
       ELSE IF IsFinite(b) THEN a.n < 0
       ELSE a.n < b.n

NumLe(a, b) ==
    /\ ~IsNaN(a)
    /\ ~IsNaN(b)
    /\ IF IsFinite(a) /\ IsFinite(b) THEN a.n * b.d <= b.n * a.d
       ELSE IF IsFinite(a) THEN b.n > 0
       ELSE IF IsFinite(b) THEN a.n < 0
       ELSE a.n <= b.n

\* Math.max(a, b)
MathMax(a, b) ==
    IF IsNaN(a) \/ IsNaN(b) THEN NaN
    ELSE IF NumLt(a, b) THEN b ELSE a

\* Math.ceil(a / b) for integers a and b > 0
CeilDiv(a, b) == -((-a) \div b)

-----------------------------------------------------------------------------
(* Dates and datasets *)

msPerDay == 60 * 60 * 24

\* midnight UTC of day k of January 2024 (2024-01-01 is day 19723 of the epoch)
Jan(k) == (19722 + k) * msPerDay

Phase(label, s, e) == [phase |-> label, startDate |-> s, endDate |-> e]

\* two projects; the two phases of project 1 overlap from Jan 3 to Jan 5
DataA ==
    [dateRange |-> Some([minDate |-> Jan(1), maxDate |-> Jan(11)]),
     projects |-> <<
        [projectId |-> 1,
         phases |-> Some(<< Phase("P+M", Jan(1), Jan(5)), Phase("Plan", Jan(3), Jan(9)) >>)],
        [projectId |-> 2,
         phases |-> Some(<< Phase("A+C", Jan(6), Jan(11)) >>)] >>]

\* seven projects over a zero span (minDate = maxDate); only two carry phases
DataB ==
    [dateRange |-> Some([minDate |-> Jan(3), maxDate |-> Jan(3)]),
     projects |-> <<
        [projectId |-> 1, phases |-> Some(<< Phase("P+M", Jan(3), Jan(3)) >>)],
        [projectId |-> 2, phases |-> Some(<< Phase("Plan", Jan(1), Jan(6)) >>)],
        [projectId |-> 3, phases |-> None],
        [projectId |-> 4, phases |-> None],
        [projectId |-> 5, phases |-> None],
        [projectId |-> 6, phases |-> None],
        [projectId |-> 7, phases |-> None] >>]

\* a dataset without dateRange
Malformed == [dateRange |-> None, projects |-> DataA.projects]

\* the dataset the view is constructed with, and those updateData is handed
InitialDatasets == {DataA}
ReplacementDatasets == {DataB, Malformed}

Granularities == {"weekly", "monthly", "quarterly"}
\* options.granularity at construction, and the arguments of setGranularity
InitialGranularities == {"weekly"}
GranularityInputs == {"monthly", "daily"}

ProjectIdInputs == {2, 999}

\* updateDateRange(startDate, endDate); None is an omitted (falsy) argument
DateRangeInputs == { <<Some(Jan(3)), Some(Jan(3))>>, <<None, Some(Jan(6))>> }

\* container.offsetWidth before and after a window resize
ContainerWidths == {610}

\* pointer positions relative to the canvas
Points == { <<300, 80>>, <<320, 90>>, <<360, 80>>, <<300, 300>>, <<100, 80>>,
            <<760, 120>>, <<600, 120>> }

\* where the pointer clicks, and where it moves
ClickPoints == { <<300, 80>>, <<320, 90>>, <<300, 300>>, <<760, 120>> }
MovePoints == { <<300, 80>>, <<320, 90>>, <<100, 80>>, <<600, 120>> }

-----------------------------------------------------------------------------
(* Options (constructor defaults) *)

DefaultPadding == [top |-> 60, right |-> 20, bottom |-> 40, left |-> 250]

Options(g) ==
    [granularity |-> g,
     rowHeight |-> 40,
     padding |-> DefaultPadding,
     onDateClick |-> TRUE,
     onProjectClick |-> TRUE,
     showTooltips |-> TRUE]

-----------------------------------------------------------------------------
(* Initialization: setupCanvas, calculateDimensions *)

Max(a, b) == IF a > b THEN a ELSE b

\* canvas.getBoundingClientRect(): the displayed size is the style size once
\* the style is set, and the width/height attributes before that
BoundingRect(c) ==
    [width |-> IF IsSome(c.styleWidth) THEN Get(c.styleWidth) ELSE c.width,
     height |-> IF IsSome(c.styleHeight) THEN Get(c.styleHeight) ELSE c.height]

\* assigning canvas.width resets the 2d context to its defaults, the
\* transform included; ctx.scale(dpr, dpr) then scales every drawing coordinate
setupCanvas(v, c, e) ==
    LET containerWidth == e.offsetWidth - 40
        sized == [c EXCEPT !.width = containerWidth,
                           !.height = Max(400, Len(v.data.projects) * v.options.rowHeight + 150),
                           !.textBaseline = "alphabetic",
                           !.scale = 1]
        rect == BoundingRect(sized)
    IN  IF e.devicePixelRatio > 1
        THEN [sized EXCEPT !.width = rect.width * e.devicePixelRatio,
                           !.height = rect.height * e.devicePixelRatio,
                           !.styleWidth = Some(rect.width),
                           !.styleHeight = Some(rect.height),
                           !.scale = e.devicePixelRatio]
        ELSE sized

calculateDaysBetween(date1, date2) == CeilDiv(date2 - date1, msPerDay)

\* the assignments of lines 83-86, which run before dateRange is read
calculatePlot(v, c) ==
    [v EXCEPT !.padding = v.options.padding,
              !.plotWidth = c.width - v.options.padding.left - v.options.padding.right,
              !.plotHeight = c.height - v.options.padding.top - v.options.padding.bottom,
              !.rowHeight = v.options.rowHeight]

\* reading data.dateRange.minDate of a dataset without dateRange throws
calculateDimensionsThrows(v) == v.data.dateRange = None

calculateDimensions(v, c) ==
    LET p == calculatePlot(v, c)
    IN  IF calculateDimensionsThrows(v)
        THEN p
        ELSE LET dateRange == Get(v.data.dateRange)
             IN  [p EXCEPT !.startDate = dateRange.minDate,
                           !.endDate = dateRange.maxDate,
                           !.totalDays = calculateDaysBetween(dateRange.minDate,
                                                              dateRange.maxDate)]

-----------------------------------------------------------------------------
(* Coordinate mapping and the project filter *)

dateToX(v, date) ==
    LET daysSinceStart == calculateDaysBetween(v.startDate, date)
        ratio == Quot(daysSinceStart, v.totalDays)
    IN  NumAdd(I(v.padding.left), NumMul(ratio, v.plotWidth))

Includes(seq, x) == \E i \in 1..Len(seq) : seq[i] = x

\* variant: the filter is not applied
getFilteredProjects_IgnoresFilter(v) == v.data.projects

getFilteredProjects(v) ==
    IF IsSome(v.filteredProjectIds) /\ Len(Get(v.filteredProjectIds)) > 0
    THEN SelectSeq(v.data.projects,
                   LAMBDA p : Includes(Get(v.filteredProjectIds), p.projectId))
    ELSE v.data.projects

-----------------------------------------------------------------------------
(* Calendar: the local-time fields of a Date *)

IsLeap(y) == (y % 4 = 0 /\ y % 100 # 0) \/ y % 400 = 0

\* the epoch day of January 1st of year y
DaysBeforeYear(y) ==
    365 * (y - 1970) + ((y - 1969) \div 4) - ((y - 1901) \div 100) + ((y - 1601) \div 400)

\* days of a common year before each month; month is 0-based, as getMonth()
\* and the Date constructor have it
MonthStarts == <<0, 31, 59, 90, 120, 151, 181, 212, 243, 273, 304, 334, 365>>

DaysBeforeMonth(y, month) ==
    MonthStarts[month + 1] + (IF month > 1 /\ IsLeap(y) THEN 1 ELSE 0)

\* the epoch day of new Date(y, month, date): a month past 11 runs into the
\* next year and a date past the month's end into the next month
DayOf(y, month, date) ==
    DaysBeforeYear(y + (month \div 12)) + DaysBeforeMonth(y + (month \div 12), month % 12)
        + date - 1

\* the year holding epoch day `day`, and the epoch day of its January 1st
YearOf(day) ==
    LET guess == 1970 + (day \div 365)
    IN  IF DaysBeforeYear(guess) > day
        THEN [year |-> guess - 1, first |-> DaysBeforeYear(guess - 1)]
        ELSE [year |-> guess, first |-> DaysBeforeYear(guess)]

\* getFullYear(), getMonth(), getDate() of a calendar day
Fields(day) ==
    LET yr == YearOf(day)
        month == CHOOSE m \in 0..11 :
                    /\ DaysBeforeMonth(yr.year, m) <= day - yr.first
                    /\ day - yr.first < DaysBeforeMonth(yr.year, m + 1)
    IN  [year |-> yr.year, month |-> month,
         date |-> day - yr.first - DaysBeforeMonth(yr.year, month) + 1]

\* Date.getDay() of a calendar day (1970-01-01 was a Thursday)
getDay(day) == (day + 4) % 7

\* the time zones the page is viewed in
TimeZones == {"UTC", "America/New_York", "Australia/Sydney"}

StandardOffset(tz) ==
    IF tz = "America/New_York" THEN (-5) * 3600
    ELSE IF tz = "Australia/Sydney" THEN 10 * 3600
    ELSE 0

\* daylight saving time from 2020 to 2024, as epoch days [first, end):
\* New York from the second Sunday of March to the first Sunday of November
\* (2021-03-14 is day 18700, 2021-11-07 day 18938), Sydney from the first
\* Sunday of October to the first Sunday of April (2020-10-04 is day 18539,
\* 2021-04-04 day 18721)
DstIntervals(tz) ==
    IF tz = "America/New_York"
    THEN { <<18329, 18567>>, <<18700, 18938>>, <<19064, 19302>>, <<19428, 19666>>,
           <<19792, 20030>> }
    ELSE IF tz = "Australia/Sydney"
    THEN { <<18175, 18357>>, <<18539, 18721>>, <<18903, 19085>>, <<19267, 19449>>,
           <<19631, 19820>>, <<20002, 20184>> }
    ELSE {}

\* by whole local days
InDst(tz, day) == \E iv \in DstIntervals(tz) : iv[1] <= day /\ day < iv[2]

\* seconds east of UTC at instant t
Offset(tz, t) ==
    StandardOffset(tz)
        + (IF InDst(tz, (t + StandardOffset(tz)) \div msPerDay) THEN 3600 ELSE 0)

\* the wall clock at instant t, in seconds, and the calendar day it shows
LocalTime(tz, t) == t + Offset(tz, t)
LocalDay(tz, t) == LocalTime(tz, t) \div msPerDay

\* the instant at which the wall clock shows w
FromLocal(tz, w) ==
    w - (StandardOffset(tz) + (IF InDst(tz, w \div msPerDay) THEN 3600 ELSE 0))

\* date.setDate(date.getDate() + days): the wall-clock time is kept
setDate(tz, t, days) == FromLocal(tz, LocalTime(tz, t) + days * msPerDay)

\* date.setMonth(date.getMonth() + months): day of month and time are kept
setMonth(tz, t, months) ==
    LET f == Fields(LocalDay(tz, t))
    IN  FromLocal(tz, DayOf(f.year, f.month + months, f.date) * msPerDay
                      + (LocalTime(tz, t) % msPerDay))

getWeekNumber(tz, date) ==
    LET day == LocalDay(tz, date)
        thursday == day + 4 - (IF getDay(day) = 0 THEN 7 ELSE getDay(day))
        d == FromLocal(tz, thursday * msPerDay)
        yearStart == FromLocal(tz, DayOf(YearOf(thursday).year, 0, 1) * msPerDay)
    IN  CeilDiv((d - yearStart) + msPerDay, 7 * msPerDay)

\* one entry of getTimePeriods: the label's parts and the period's date
Period(tz, granularity, currentDate) ==
    LET f == Fields(LocalDay(tz, currentDate))
    IN  [label |-> IF granularity = "weekly" THEN <<"W", getWeekNumber(tz, currentDate)>>
                   ELSE IF granularity = "monthly" THEN <<"M", f.month, f.year % 100>>
                   ELSE <<"Q", (f.month \div 3) + 1, f.year % 100>>,
         date |-> currentDate]

\* variant: the monthly step advances by one day
NextPeriod_MonthlyByDay(tz, granularity, currentDate) ==
    IF granularity = "weekly" THEN setDate(tz, currentDate, 7)
    ELSE IF granularity = "monthly" THEN setDate(tz, currentDate, 1)
    ELSE setMonth(tz, currentDate, 3)

\* the step at the end of each loop body
NextPeriod(tz, granularity, currentDate) ==
    IF granularity = "weekly" THEN setDate(tz, currentDate, 7)
    ELSE IF granularity = "monthly" THEN setMonth(tz, currentDate, 1)
    ELSE setMonth(tz, currentDate, 3)

RECURSIVE PeriodsFrom(_, _, _, _)
PeriodsFrom(tz, granularity, currentDate, endDate) ==
    IF currentDate <= endDate
    THEN << Period(tz, granularity, currentDate) >>
         \o PeriodsFrom(tz, granularity, NextPeriod(tz, granularity, currentDate), endDate)
    ELSE << >>

\* no case of the switch matches any other granularity
getTimePeriods(v, tz) ==
    IF v.options.granularity \in {"weekly", "monthly", "quarterly"}
    THEN PeriodsFrom(tz, v.options.granularity, v.startDate, v.endDate)
    ELSE << >>

\* Math.floor of a finite number
Floor(a) == a.n \div a.d

\* variant: the day offset is rounded up
xToDate_Ceil(v, tz, x) ==
    LET ratio == Quot(x - v.padding.left, v.plotWidth)
        days == NumMul(ratio, v.totalDays)
    IN  IF IsFinite(days) THEN Some(setDate(tz, v.startDate, CeilDiv(days.n, days.d))) ELSE None

\* xToDate: an Invalid Date (None) when the day offset is not finite
xToDate(v, tz, x) ==
    LET ratio == Quot(x - v.padding.left, v.plotWidth)
        days == NumMul(ratio, v.totalDays)
    IN  IF IsFinite(days) THEN Some(setDate(tz, v.startDate, Floor(days))) ELSE None

-----------------------------------------------------------------------------
(* Rendering *)

\* the rectangle drawPhaseBar computes for a phase in the lane at y
PhaseBounds(v, phase, y) ==
    LET startX == dateToX(v, phase.startDate)
        endX == dateToX(v, phase.endDate)
    IN  [x |-> startX, y |-> y, width |-> MathMax(NumSub(endX, startX), I(2)), height |-> 30]

\* "if (width < 1) return": the bar is neither drawn nor recorded
PhaseSkipped(b) == NumLt(b.width, I(1))

LaneY(v, index) == v.padding.top + (index * v.rowHeight) + 5

\* "if (project.phases && Array.isArray(project.phases))"
PhasesOf(project) == IF IsSome(project.phases) THEN Get(project.phases) ELSE << >>

\* the bars of one project, in phase order
RECURSIVE ProjectBars(_, _, _, _)
ProjectBars(v, project, y, k) ==
    IF k > Len(PhasesOf(project)) THEN << >>
    ELSE LET phase == PhasesOf(project)[k]
             b == PhaseBounds(v, phase, y)
             rest == ProjectBars(v, project, y, k + 1)
         IN  IF PhaseSkipped(b) THEN rest
             ELSE << [project |-> project.projectId, phase |-> phase, bounds |-> b] >> \o rest

\* drawProjectBars: the bars of the visible projects, lane by lane
RECURSIVE AllBars(_, _, _)
AllBars(v, projects, i) ==
    IF i > Len(projects) THEN << >>
    ELSE ProjectBars(v, projects[i], LaneY(v, i - 1), 1) \o AllBars(v, projects, i + 1)

\* drawProjectLabel, once per visible project
Labels(v, projects) ==
    [i \in 1..Len(projects) |->
        [project |-> projects[i].projectId,
         y |-> LaneY(v, i - 1) + (v.rowHeight \div 2) - 5]]

\* the element objects one render pushes: each is a new object, told apart
\* from every other by the pass that made it (gen) and its place in the pass
NewElements(bars, gen) ==
    [i \in 1..Len(bars) |->
        [gen |-> gen, idx |-> i, type |-> "phase",
         project |-> bars[i].project, phase |-> bars[i].phase, bounds |-> bars[i].bounds]]

\* "if (!this.elements) this.elements = []; this.elements.push(...)"
PushElements(elements, new) == elements \o new

drawToday(v, now) ==
    IF now >= v.startDate /\ now <= v.endDate THEN Some(dateToX(v, now)) ELSE None

drawTooltip(v) ==
    IF IsSome(v.hoveredElement) /\ v.options.showTooltips THEN v.hoveredElement ELSE None

\* a / 2
NumHalf(a) == IF IsFinite(a) THEN Quot(a.n, a.d * 2) ELSE a

\* ctx.measureText(line).width of the widest tooltip line, in pixels: the
\* "Project: ..." line of project 2, whose name is long, and the
\* "Duration: ..." line of the other projects
measureText(element) == IF element.project = 2 THEN 745 ELSE 140

\* "if (x < 10) x = 10"
ClampLeft(x) == IF NumLt(x, I(10)) THEN I(10) ELSE x

\* "if (x + tooltipWidth > this.canvas.width - 10)
\*      x = this.canvas.width - tooltipWidth - 10"
ClampRight(x, tooltipWidth, canvasWidth) ==
    IF NumLt(I(canvasWidth - 10), NumAdd(x, I(tooltipWidth)))
    THEN I(canvasWidth - tooltipWidth - 10)
    ELSE x

\* "if (y < 10) y = bounds.y + bounds.height + 10"
FlipBelow(y, bounds) == IF y < 10 THEN bounds.y + bounds.height + 10 ELSE y

\* the rectangle drawTooltip fills for the hovered element, in the
\* coordinates it hands to fillRect
TooltipRect(element, c) ==
    LET padding == 10
        lineHeight == 16
        tooltipWidth == measureText(element) + (padding * 2)
        tooltipHeight == (5 * lineHeight) + (padding * 2)
    IN  [x |-> ClampRight(ClampLeft(NumSub(NumAdd(element.bounds.x,
                                                   NumHalf(element.bounds.width)),
                                            NumHalf(I(tooltipWidth)))),
                          tooltipWidth, c.width),
         y |-> FlipBelow(element.bounds.y - tooltipHeight - 10, element.bounds),
         width |-> tooltipWidth,
         height |-> tooltipHeight]

\* the rectangle of the tooltip one render pass draws, if it draws one
drawTooltipRect(v, c) ==
    IF IsSome(drawTooltip(v)) THEN Some(TooltipRect(Get(drawTooltip(v)), c)) ELSE None

\* ctx.textBaseline is assigned by drawProjectLabel ('middle') and by
\* drawTooltip ('top') only: the axis texts are drawn with the baseline the
\* context was left with, the TODAY label with the one the labels left
BaselineAfterLabels(c, projects) ==
    IF Len(projects) > 0 THEN "middle" ELSE c.textBaseline

BaselineAfterTooltip(v, c, projects) ==
    IF IsSome(drawTooltip(v)) THEN "top" ELSE BaselineAfterLabels(c, projects)

\* render(): the view after the pass, what it drew, and the baseline it leaves
render(v, c, gen, now, tz) ==
    LET projects == getFilteredProjects(v)
        bars == AllBars(v, projects, 1)
    IN  [view |-> [v EXCEPT !.elements = PushElements(v.elements, NewElements(bars, gen))],
         textBaseline |-> BaselineAfterTooltip(v, c, projects),
         surface |->
            [background |-> Some([width |-> c.width, height |-> c.height,
                                  plotWidth |-> v.plotWidth, plotHeight |-> v.plotHeight]),
             axis |-> Some([granularity |-> v.options.granularity,
                            startDate |-> v.startDate, endDate |-> v.endDate,
                            periods |-> getTimePeriods(v, tz),
                            textBaseline |-> c.textBaseline]),
             labels |-> Labels(v, projects),
             bars |-> bars,
             today |-> IF IsSome(drawToday(v, now))
                       THEN Some([x |-> Get(drawToday(v, now)),
                                  textBaseline |-> BaselineAfterLabels(c, projects)])
                       ELSE None,
             tooltip |-> drawTooltip(v),
             tooltipRect |-> drawTooltipRect(v, c)]]

\* ctx.clearRect over the whole canvas, nothing drawn after it
Cleared == [background |-> None, axis |-> None, labels |-> << >>, bars |-> << >>,
            today |-> None, tooltip |-> None, tooltipRect |-> None]

-----------------------------------------------------------------------------
(* Hit testing *)

Contains(el, x, y) ==
    /\ NumLe(el.bounds.x, I(x))
    /\ NumLe(I(x), NumAdd(el.bounds.x, el.bounds.width))
    /\ y >= el.bounds.y
    /\ y <= el.bounds.y + el.bounds.height

\* variant: the scan runs in insertion order, the first match wins
RECURSIVE ScanUpFrom(_, _, _, _, _)
ScanUpFrom(elements, k, i, x, y) ==
    IF k > i THEN None
    ELSE IF Contains(elements[k], x, y) THEN Some(elements[k])
    ELSE ScanUpFrom(elements, k + 1, i, x, y)

ScanUp(elements, i, x, y) == ScanUpFrom(elements, 1, i, x, y)

\* the scan of findElementAtPosition from index i down to 1
RECURSIVE ScanDown(_, _, _, _)
ScanDown(elements, i, x, y) ==
    IF i < 1 THEN None
    ELSE IF Contains(elements[i], x, y) THEN Some(elements[i])
    ELSE ScanDown(elements, i - 1, x, y)

findElementAtPosition(v, x, y) == ScanDown(v.elements, Len(v.elements), x, y)

isInPlotArea(v, x, y) ==
    /\ x >= v.padding.left
    /\ x <= v.padding.left + v.plotWidth
    /\ y >= v.padding.top
    /\ y <= v.padding.top + v.plotHeight

-----------------------------------------------------------------------------
(* Listeners *)

\* method.bind(this): a new function object, not the method itself, that
\* calls the method on the object `this`; objects are numbered in the order
\* of their construction
BoundTo(method, this) == [method |-> method, bound |-> TRUE, this |-> this]
Bound(method) == BoundTo(method, 1)
Method(method) == [method |-> method, bound |-> FALSE, this |-> 0]

Listener(target, type, fn) == [target |-> target, type |-> type, fn |-> fn]

addEventListener(ls, target, type, fn) == ls \cup {Listener(target, type, fn)}

\* removes the listener registered with this very function object, if any
removeEventListener(ls, target, type, fn) == ls \ {Listener(target, type, fn)}

\* attachEventListeners() of the object `this`
attachEventListenersOf(ls, this) ==
    LET l1 == addEventListener(ls, "canvas", "click", BoundTo("handleClick", this))
        l2 == addEventListener(l1, "canvas", "mousemove", BoundTo("handleMouseMove", this))
        l3 == addEventListener(l2, "canvas", "mouseleave", BoundTo("handleMouseLeave", this))
    IN  addEventListener(l3, "window", "resize", BoundTo("executedFunction", this))

attachEventListeners(ls) == attachEventListenersOf(ls, 1)

\* the functions destroy() hands to removeEventListener
destroyListeners(ls) ==
    LET l1 == removeEventListener(ls, "canvas", "click", Method("handleClick"))
        l2 == removeEventListener(l1, "canvas", "mousemove", Method("handleMouseMove"))
    IN  removeEventListener(l2, "canvas", "mouseleave", Method("handleMouseLeave"))

\* an event of this type on this target reaches the method
Dispatches(target, type, method) ==
    \E l \in listeners : l.target = target /\ l.type = type /\ l.fn.method = method

-----------------------------------------------------------------------------
(* Construction *)

DprInputs == {1, 2}

Now == Jan(4) + 3600

\* a canvas element as created by the page: default size, no inline style
NewCanvas == [width |-> 300, height |-> 150, styleWidth |-> None, styleHeight |-> None,
              cursor |-> "", textBaseline |-> "alphabetic", scale |-> 1]

\* the fields the constructor assigns before it calls setupCanvas
NewView(data, options) ==
    [data |-> data, options |-> options,
     filteredProjectIds |-> None, hoveredElement |-> None,
     padding |-> options.padding, plotWidth |-> 0, plotHeight |-> 0, rowHeight |-> 0,
     startDate |-> 0, endDate |-> 0, totalDays |-> 0,
     elements |-> << >>]

\* what a constructor call that throws at the canvas lookup leaves behind
NoCanvas == [NewCanvas EXCEPT !.width = 0, !.height = 0]

\* variant: the listeners are attached before the canvas is looked up
constructor_AttachesFirst(found, data, options, e) ==
    LET v0 == NewView(data, options)
        c1 == setupCanvas(v0, NewCanvas, e)
        v1 == calculateDimensions(v0, c1)
        r == render(v1, c1, 1, e.now, e.tz)
    IN  IF found
        THEN [view |-> r.view, canvas |-> [c1 EXCEPT !.textBaseline = r.textBaseline],
              surface |-> r.surface, listeners |-> attachEventListeners({}),
              rendered |-> 1, thrown |-> "none"]
        ELSE [view |-> v0, canvas |-> NoCanvas, surface |-> Cleared,
              listeners |-> attachEventListeners({}), rendered |-> 0, thrown |-> "Error"]

\* the constructor's body once the canvas element c is found: the object
\* `this` is set up on it as render pass gen, its listeners added to ls
construct(c, ls, this, gen, data, options, e) ==
    LET v0 == NewView(data, options)
        c1 == setupCanvas(v0, c, e)
        v1 == calculateDimensions(v0, c1)
        r == render(v1, c1, gen, e.now, e.tz)
    IN  [view |-> r.view, canvas |-> [c1 EXCEPT !.textBaseline = r.textBaseline],
         surface |-> r.surface, listeners |-> attachEventListenersOf(ls, this),
         rendered |-> 1, thrown |-> "none"]

\* new ProjectTimeline(canvasId, data, options); found: getElementById(canvasId)
\* returns an element.  A call that throws returns no object: view then holds
\* the fields no method will ever read.
constructor(found, data, options, e) ==
    IF ~found
    THEN [view |-> NewView(data, options), canvas |-> NoCanvas, surface |-> Cleared,
          listeners |-> {}, rendered |-> 0, thrown |-> "Error"]
    ELSE construct(NewCanvas, {}, 1, 1, data, options, e)

\* the globals of dashboard.js as the script declares them, nothing pending;
\* the view is then driven directly, not through the dashboard
NoPage ==
    [timelineInstance |-> None, allTimelineData |-> None, currentProjectFilter |-> "all",
     currentDateRange |-> [startDate |-> None, endDate |-> None],
     dateInputs |-> [startDate |-> None, endDate |-> None],
     projectFilter |-> [options |-> {"all"}, value |-> "all"],
     runs |-> {}, started |-> 0, overlapped |-> FALSE, superseded |-> << >>,
     requests |-> {}, issued |-> 0, resolved |-> << >>, modal |-> None]

Init ==
    \E data \in InitialDatasets, g \in InitialGranularities, dpr \in DprInputs,
       found \in BOOLEAN :
        LET e == [offsetWidth |-> 810, devicePixelRatio |-> dpr, now |-> Now,
                  canvasExists |-> found, tz |-> "UTC"]
            made == constructor(found, data, Options(g), e)
        IN  /\ env = e
            /\ canvas = made.canvas
            /\ listeners = made.listeners
            /\ view = made.view
            /\ surface = made.surface
            /\ timeout = None
            /\ timers = {}
            /\ burst = [events |-> 0, since |-> 0, relayouts |-> 0]
            /\ renderCount = made.rendered
            /\ op = [name |-> "constructor", arg |-> << >>]
            /\ rendered = made.rendered
            /\ thrown = made.thrown
            /\ calls = << >>
            /\ destroyed = FALSE
            /\ returned = None
            /\ steps = 0
            /\ page = NoPage

\* the constructor threw: there is no object to call and nothing to dispatch to
ConstructionFailed == op.name = "constructor" /\ thrown # "none"

-----------------------------------------------------------------------------
(* Operations *)

\* the next render() pass of this step
Render(v, c) == render(v, c, renderCount + 1, env.now, env.tz)

\* a step that ends after n render passes with view v, canvas c, surface s
Finish(name, arg, v, c, s, n, err, cbs) ==
    /\ ~ConstructionFailed
    /\ steps < MaxSteps
    /\ steps' = steps + 1
    /\ view' = v
    /\ canvas' = c
    /\ surface' = s
    /\ renderCount' = renderCount + n
    /\ rendered' = n
    /\ op' = [name |-> name, arg |-> arg]
    /\ thrown' = err
    /\ calls' = cbs
    /\ returned' = None
    /\ UNCHANGED page

FinishRendered(name, arg, v, c) ==
    LET r == Render(v, c)
    IN  Finish(name, arg, r.view, [c EXCEPT !.textBaseline = r.textBaseline],
               r.surface, 1, "none", << >>)

\* variant: the value is stored without the membership test
SetGranularity_Unchecked(granularity) ==
    /\ FinishRendered("setGranularity", <<granularity>>,
                      [view EXCEPT !.options.granularity = granularity], canvas)
    /\ UNCHANGED <<listeners, timeout, timers, burst, env, destroyed>>

SetGranularity(granularity) ==
    /\ IF granularity \in {"weekly", "monthly", "quarterly"}
       THEN FinishRendered("setGranularity", <<granularity>>,
                           [view EXCEPT !.options.granularity = granularity], canvas)
       ELSE Finish("setGranularity", <<granularity>>, view, canvas, surface, 0, "none", << >>)
    /\ UNCHANGED <<listeners, timeout, timers, burst, env, destroyed>>

FilterByProject(projectId) ==
    /\ FinishRendered("filterByProject", <<projectId>>,
                      [view EXCEPT !.filteredProjectIds = Some(<<projectId>>)], canvas)
    /\ UNCHANGED <<listeners, timeout, timers, burst, env, destroyed>>

ShowAllProjects ==
    /\ FinishRendered("showAllProjects", << >>,
                      [view EXCEPT !.filteredProjectIds = None], canvas)
    /\ UNCHANGED <<listeners, timeout, timers, burst, env, destroyed>>

UpdateDateRange(startDate, endDate) ==
    /\ LET s == IF IsSome(startDate) THEN Get(startDate) ELSE view.startDate
           e == IF IsSome(endDate) THEN Get(endDate) ELSE view.endDate
       IN  FinishRendered("updateDateRange", <<startDate, endDate>>,
                          [view EXCEPT !.startDate = s, !.endDate = e,
                                       !.totalDays = calculateDaysBetween(s, e)],
                          canvas)
    /\ UNCHANGED <<listeners, timeout, timers, burst, env, destroyed>>

\* variant: a dataset without dateRange is dropped silently
UpdateData_IgnoresMalformed(newData) ==
    /\ IF newData.dateRange = None
       THEN Finish("updateData", <<newData>>, view, canvas, surface, 0, "none", << >>)
       ELSE LET v2 == calculateDimensions([view EXCEPT !.data = newData], canvas)
                c2 == setupCanvas(v2, canvas, env)
            IN  FinishRendered("updateData", <<newData>>, v2, c2)
    /\ UNCHANGED <<listeners, timeout, timers, burst, env, destroyed>>

\* variant: replacing the data clears the project filter
UpdateData_ResetsFilter(newData) ==
    /\ LET v1 == [view EXCEPT !.data = newData, !.filteredProjectIds = None]
       IN  IF calculateDimensionsThrows(v1)
           THEN Finish("updateData", <<newData>>, calculateDimensions(v1, canvas),
                       canvas, surface, 0, "TypeError", << >>)
           ELSE LET v2 == calculateDimensions(v1, canvas)
                    c2 == setupCanvas(v2, canvas, env)
                IN  FinishRendered("updateData", <<newData>>, v2, c2)
    /\ UNCHANGED <<listeners, timeout, timers, burst, env, destroyed>>

UpdateData(newData) ==
    /\ LET v1 == [view EXCEPT !.data = newData]
       IN  IF calculateDimensionsThrows(v1)
           THEN Finish("updateData", <<newData>>, calculateDimensions(v1, canvas),
                       canvas, surface, 0, "TypeError", << >>)
           ELSE LET v2 == calculateDimensions(v1, canvas)
                    c2 == setupCanvas(v2, canvas, env)
                IN  FinishRendered("updateData", <<newData>>, v2, c2)
    /\ UNCHANGED <<listeners, timeout, timers, burst, env, destroyed>>

Refresh ==
    /\ FinishRendered("refresh", << >>, [view EXCEPT !.elements = << >>], canvas)
    /\ UNCHANGED <<listeners, timeout, timers, burst, env, destroyed>>

\* a direct call of render()
RenderCall ==
    /\ FinishRendered("render", << >>, view, canvas)
    /\ UNCHANGED <<listeners, timeout, timers, burst, env, destroyed>>

Destroy ==
    /\ listeners' = destroyListeners(listeners)
    /\ destroyed' = TRUE
    /\ Finish("destroy", << >>, view, canvas, Cleared, 0, "none", << >>)
    /\ UNCHANGED <<timeout, timers, burst, env>>

-----------------------------------------------------------------------------
(* Event handlers *)

\* variant: a click on a bar goes on to report the date under it as well
handleClickCalls_AlsoDate(v, tz, x, y) ==
    LET clickedElement == findElementAtPosition(v, x, y)
        clickedDate == xToDate(v, tz, x)
        dateCall == << [callback |-> "onDateClick",
                        args |-> << clickedDate,
                                    IF IsSome(clickedDate)
                                    THEN Some(getWeekNumber(tz, Get(clickedDate)))
                                    ELSE None >>] >>
    IN  IF IsSome(clickedElement)
        THEN << [callback |-> "onProjectClick",
                 args |-> <<Get(clickedElement).project, Get(clickedElement).phase>>] >>
             \o dateCall
        ELSE IF isInPlotArea(v, x, y) THEN dateCall ELSE << >>

handleClickCalls(v, tz, x, y) ==
    LET clickedElement == findElementAtPosition(v, x, y)
    IN  IF IsSome(clickedElement)
        THEN IF Get(clickedElement).type = "phase" /\ v.options.onProjectClick
             THEN << [callback |-> "onProjectClick",
                      args |-> <<Get(clickedElement).project, Get(clickedElement).phase>>] >>
             ELSE << >>
        ELSE IF isInPlotArea(v, x, y)
             THEN LET clickedDate == xToDate(v, tz, x)
                  IN  IF v.options.onDateClick
                      THEN << [callback |-> "onDateClick",
                               args |-> << clickedDate,
                                           IF IsSome(clickedDate)
                                           THEN Some(getWeekNumber(tz, Get(clickedDate)))
                                           ELSE None >>] >>
                      ELSE << >>
             ELSE << >>

Click(x, y) ==
    /\ Dispatches("canvas", "click", "handleClick")
    /\ Finish("click", <<x, y>>, view, canvas, surface, 0, "none",
              handleClickCalls(view, env.tz, x, y))
    /\ UNCHANGED <<listeners, timeout, timers, burst, env, destroyed>>

MouseMove(x, y) ==
    /\ Dispatches("canvas", "mousemove", "handleMouseMove")
    /\ LET hoveredElement == findElementAtPosition(view, x, y)
           c2 == [canvas EXCEPT !.cursor =
                     IF IsSome(hoveredElement) \/ isInPlotArea(view, x, y)
                     THEN "pointer" ELSE "default"]
       IN  IF hoveredElement # view.hoveredElement
           THEN FinishRendered("mousemove", <<x, y>>,
                               [view EXCEPT !.hoveredElement = hoveredElement], c2)
           ELSE Finish("mousemove", <<x, y>>, view, c2, surface, 0, "none", << >>)
    /\ UNCHANGED <<listeners, timeout, timers, burst, env, destroyed>>

\* variant: the hovered element is kept and every event renders
MouseLeave_KeepsHover ==
    /\ Dispatches("canvas", "mouseleave", "handleMouseLeave")
    /\ FinishRendered("mouseleave", << >>, view, [canvas EXCEPT !.cursor = "default"])
    /\ UNCHANGED <<listeners, timeout, timers, burst, env, destroyed>>

MouseLeave ==
    /\ Dispatches("canvas", "mouseleave", "handleMouseLeave")
    /\ LET c2 == [canvas EXCEPT !.cursor = "default"]
       IN  IF IsSome(view.hoveredElement)
           THEN FinishRendered("mouseleave", << >>,
                               [view EXCEPT !.hoveredElement = None], c2)
           ELSE Finish("mouseleave", << >>, view, c2, surface, 0, "none", << >>)
    /\ UNCHANGED <<listeners, timeout, timers, burst, env, destroyed>>

\* the wait attachEventListeners passes to debounce
ResizeDelay == 250

\* setTimeout(later, wait): the timer's id is new (here the number of the step)
setTimeout(ts, id, wait) == ts \cup {[id |-> id, remaining |-> wait]}

\* clearTimeout(handle): no effect when the handle names no pending timer
clearTimeout(ts, handle) == {t \in ts : handle = None \/ t.id # Get(handle)}

\* variant: the pending timer is left to run
WindowResize_NoCancel(width) ==
    /\ Dispatches("window", "resize", "executedFunction")
    /\ env' = [env EXCEPT !.offsetWidth = width]
    /\ timers' = setTimeout(timers, steps + 1, ResizeDelay)
    /\ timeout' = Some(steps + 1)
    /\ burst' = IF burst.relayouts > 0
                THEN [events |-> 1, since |-> 0, relayouts |-> 0]
                ELSE [burst EXCEPT !.events = @ + 1, !.since = 0]
    /\ Finish("resize", <<width>>, view, canvas, surface, 0, "none", << >>)
    /\ UNCHANGED <<listeners, destroyed>>

\* a window resize event: the container takes a width, executedFunction clears
\* the timer its closure remembers and sets a new one
WindowResize(width) ==
    /\ Dispatches("window", "resize", "executedFunction")
    /\ env' = [env EXCEPT !.offsetWidth = width]
    /\ timers' = setTimeout(clearTimeout(timers, timeout), steps + 1, ResizeDelay)
    /\ timeout' = Some(steps + 1)
    /\ burst' = IF burst.relayouts > 0
                THEN [events |-> 1, since |-> 0, relayouts |-> 0]
                ELSE [burst EXCEPT !.events = @ + 1, !.since = 0]
    /\ Finish("resize", <<width>>, view, canvas, surface, 0, "none", << >>)
    /\ UNCHANGED <<listeners, destroyed>>

\* a timer whose delay has run out fires: later() clears the closure's timer
\* and runs setupCanvas, calculateDimensions, render
ResizeTimer ==
    \E t \in timers :
        /\ t.remaining = 0
        /\ timers' = clearTimeout(timers \ {t}, timeout)
        /\ burst' = [burst EXCEPT !.relayouts = @ + 1]
        /\ LET c2 == setupCanvas(view, canvas, env)
               v2 == calculateDimensions(view, c2)
           IN  IF calculateDimensionsThrows(view)
               THEN Finish("relayout", << >>, v2, c2, Cleared, 0, "TypeError", << >>)
               ELSE FinishRendered("relayout", << >>, v2, c2)
        /\ UNCHANGED <<listeners, timeout, env, destroyed>>

\* the time that passes between two events or timer callbacks
Delays == {125, 250}

\* time passes while a timer is pending; no timer is overdue
Tick(ms) ==
    /\ timers # {}
    /\ \A t \in timers : t.remaining >= ms
    /\ timers' = {[t EXCEPT !.remaining = @ - ms] : t \in timers}
    /\ burst' = [burst EXCEPT !.since = @ + ms]
    /\ op' = [name |-> "tick", arg |-> <<ms>>]
    /\ rendered' = 0
    /\ thrown' = "none"
    /\ calls' = << >>
    /\ UNCHANGED <<view, canvas, surface, listeners, timeout, env, renderCount,
                   destroyed, returned, steps, page>>

Next ==
    \/ \E g \in GranularityInputs : SetGranularity(g)
    \/ \E id \in ProjectIdInputs : FilterByProject(id)
    \/ ShowAllProjects
    \/ \E r \in DateRangeInputs : UpdateDateRange(r[1], r[2])
    \/ \E d \in ReplacementDatasets : UpdateData(d)
    \/ Refresh
    \/ RenderCall
    \/ Destroy
    \/ \E p \in ClickPoints : Click(p[1], p[2])
    \/ \E p \in MovePoints : MouseMove(p[1], p[2])
    \/ MouseLeave
    \/ \E w \in ContainerWidths : WindowResize(w)
    \/ ResizeTimer
    \/ \E ms \in Delays : Tick(ms)

Spec == Init /\ [][Next]_vars

-----------------------------------------------------------------------------
(* The calendar functions over date ranges and time zones *)

\* longest date range explored, in days
MaxSpan == 30

\* first days of the ranges: 2021-06-28, 2023-12-31, 2024-01-01, 2024-01-31
RangeStarts == {DayOf(2021, 5, 28), DayOf(2023, 11, 31), DayOf(2024, 0, 1),
                DayOf(2024, 0, 31)}

\* the days getWeekNumber is asked about: the week of 2021-06-28 and the two
\* weeks from 2023-12-25
CalendarDays ==
    {DayOf(2021, 5, 28) + k : k \in 0..6} \cup {DayOf(2023, 11, 25) + k : k \in 0..13}

\* a dataset over [first, first + span] whose dates are date-only values
\* (midnight UTC), with one project whose P+M phase covers the first week
RangeData(first, span) ==
    [dateRange |-> Some([minDate |-> first * msPerDay,
                         maxDate |-> (first + span) * msPerDay]),
     projects |-> <<
        [projectId |-> 1,
         phases |-> Some(<< Phase("P+M", first * msPerDay, (first + 6) * msPerDay) >>)] >>]

CalendarInit ==
    \E tz \in TimeZones, first \in RangeStarts, span \in 0..MaxSpan, g \in Granularities :
        LET e == [offsetWidth |-> 810, devicePixelRatio |-> 1, now |-> Now,
                  canvasExists |-> TRUE, tz |-> tz]
            made == constructor(TRUE, RangeData(first, span), Options(g), e)
        IN  /\ env = e
            /\ canvas = made.canvas
            /\ listeners = made.listeners
            /\ view = made.view
            /\ surface = made.surface
            /\ timeout = None
            /\ timers = {}
            /\ burst = [events |-> 0, since |-> 0, relayouts |-> 0]
            /\ renderCount = made.rendered
            /\ op = [name |-> "constructor", arg |-> << >>]
            /\ rendered = made.rendered
            /\ thrown = made.thrown
            /\ calls = << >>
            /\ destroyed = FALSE
            /\ returned = None
            /\ steps = 0
            /\ page = NoPage

\* a call of a method that reads the view and returns a value; a query
\* changes nothing the next one reads, so a behaviour asks one
Query(name, arg, value) ==
    /\ ~ConstructionFailed
    /\ returned = None
    /\ op' = [name |-> name, arg |-> arg]
    /\ returned' = Some(value)
    /\ rendered' = 0
    /\ thrown' = "none"
    /\ calls' = << >>

GetTimePeriods ==
    /\ Query("getTimePeriods", << >>, getTimePeriods(view, env.tz))
    /\ UNCHANGED <<view, canvas, surface, listeners, timeout, timers, burst, env,
                   renderCount, destroyed, steps, page>>

\* getWeekNumber(new Date(y, m, d)) for the calendar day y-m-d
GetWeekNumber(day) ==
    /\ Query("getWeekNumber", <<day>>,
             getWeekNumber(env.tz, FromLocal(env.tz, day * msPerDay)))
    /\ UNCHANGED <<view, canvas, surface, listeners, timeout, timers, burst, env,
                   renderCount, destroyed, steps, page>>

CalendarNext ==
    \/ GetTimePeriods
    \/ \E day \in CalendarDays : GetWeekNumber(day)

CalendarSpec == CalendarInit /\ [][CalendarNext]_vars

-----------------------------------------------------------------------------
(* The dashboard (static/js/dashboard.js): loading the timeline data, the
   controls that drive the view, and the drill-down modal *)

\* user events handled by the page
MaxPageSteps == 3

\* the rows /api/timeline-data returns: one per project, phase and module-week
ApiRows ==
    << [project_id |-> 1, phase_code |-> "PLAN", week_start_date |-> Jan(3), week_end_date |-> Jan(7)],
       [project_id |-> 1, phase_code |-> "PM", week_start_date |-> Jan(1), week_end_date |-> Jan(5)],
       [project_id |-> 2, phase_code |-> "AC", week_start_date |-> Jan(6), week_end_date |-> Jan(11)],
       [project_id |-> 1, phase_code |-> "PLAN", week_start_date |-> Jan(5), week_end_date |-> Jan(9)] >>

\* the body of the response to /api/timeline-data?start_date=..&end_date=..
TimelineResponse(params) ==
    [dateRange |-> Some([minDate |-> Get(params.startDate), maxDate |-> Get(params.endDate)]),
     projects |-> ApiRows]

phaseMapping(code) ==
    CASE code = "PM" -> "P+M"
      [] code = "PLAN" -> "Plan"
      [] code = "AC" -> "A+C"
      [] OTHER -> code

phaseOrder == <<"P+M", "Plan", "A+C", "Testing", "Deploy", "Post Go Live">>

\* phaseOrder.indexOf(phase)
indexOf(seq, x) ==
    IF \E i \in 1..Len(seq) : seq[i] = x
    THEN (CHOOSE i \in 1..Len(seq) : seq[i] = x /\ \A j \in 1..(i - 1) : seq[j] # x) - 1
    ELSE -1

\* the keys of a Map in insertion order, keys[i] being the key of the i-th row
RECURSIVE MapKeys(_, _)
MapKeys(keys, i) ==
    IF i > Len(keys) THEN << >>
    ELSE IF \E j \in 1..(i - 1) : keys[j] = keys[i] THEN MapKeys(keys, i + 1)
    ELSE << keys[i] >> \o MapKeys(keys, i + 1)

MinOf(S) == CHOOSE x \in S : \A y \in S : x <= y
MaxOf(S) == CHOOSE x \in S : \A y \in S : y <= x

\* the phaseMap entry of one phase: the earliest start and the latest end of
\* its rows
PhaseEntry(rows, phase) ==
    LET mine == { i \in 1..Len(rows) : phaseMapping(rows[i].phase_code) = phase }
    IN  Phase(phase, MinOf({ rows[i].week_start_date : i \in mine }),
                     MaxOf({ rows[i].week_end_date : i \in mine }))

\* phases.sort by the index in phaseOrder (the sort is stable)
RECURSIVE SortByPhaseOrder(_, _)
SortByPhaseOrder(phases, index) ==
    IF index >= Len(phaseOrder) THEN << >>
    ELSE SelectSeq(phases, LAMBDA ph : indexOf(phaseOrder, ph.phase) = index)
         \o SortByPhaseOrder(phases, index + 1)

transformTimelineData(apiData) ==
    LET rows == apiData.projects
        projectKeys == MapKeys([i \in 1..Len(rows) |-> rows[i].project_id], 1)
        RowsOf(id) == SelectSeq(rows, LAMBDA row : row.project_id = id)
        PhasesOfRows(rs) ==
            LET phaseKeys == MapKeys([i \in 1..Len(rs) |-> phaseMapping(rs[i].phase_code)], 1)
            IN  SortByPhaseOrder([k \in 1..Len(phaseKeys) |-> PhaseEntry(rs, phaseKeys[k])], -1)
    IN  [dateRange |-> apiData.dateRange,
         projects |-> [k \in 1..Len(projectKeys) |->
                          [projectId |-> projectKeys[k],
                           phases |-> Some(PhasesOfRows(RowsOf(projectKeys[k])))]]]

\* the options loadDashboardData constructs the view with: no onDateClick
DashboardOptions == [Options("weekly") EXCEPT !.onDateClick = FALSE]

\* the values of the date inputs and of the project filter's options
StartDateInputs == {Jan(1), Jan(3)}
EndDateInputs == {Jan(11), Jan(9)}
ProjectFilterInputs == {"all", "2"}
PageGranularityInputs == {"monthly"}
PageClickPoints == { <<320, 90>> }
DrillDownDates == {Jan(2), Jan(9), Jan(16)}

\* parseInt of an option value
parseInt(value) == CASE value = "1" -> 1 [] value = "2" -> 2

\* the body of the response to /api/week-details?date=..
WeekDetails(date) == [week |-> date]

\* loadDashboardData up to its first await: the date inputs are read into
\* currentDateRange and the three fetches are issued with them
loadDashboardData(pg) ==
    [pg EXCEPT !.currentDateRange = pg.dateInputs,
               !.runs = @ \cup {[id |-> pg.started + 1, params |-> pg.dateInputs,
                                 stage |-> "fetching"]},
               !.started = @ + 1,
               !.overlapped = @ \/ \E r \in pg.runs : r.stage = "fetching"]

\* the DOMContentLoaded handler up to the first await of loadDashboardData:
\* the date inputs are set, the page's listeners attached, the first load
\* started; no ProjectTimeline exists yet
DashboardInit ==
    /\ page = loadDashboardData([NoPage EXCEPT !.dateInputs =
                                    [startDate |-> Some(Jan(1)), endDate |-> Some(Jan(11))]])
    /\ env = [offsetWidth |-> 810, devicePixelRatio |-> 1, now |-> Now,
              canvasExists |-> TRUE, tz |-> "UTC"]
    /\ view = NewView([dateRange |-> None, projects |-> << >>], DashboardOptions)
    /\ canvas = NewCanvas
    /\ surface = Cleared
    /\ listeners = {}
    /\ timeout = None
    /\ timers = {}
    /\ burst = [events |-> 0, since |-> 0, relayouts |-> 0]
    /\ renderCount = 0
    /\ op = [name |-> "DOMContentLoaded", arg |-> << >>]
    /\ rendered = 0
    /\ thrown = "none"
    /\ calls = << >>
    /\ destroyed = FALSE
    /\ returned = None
    /\ steps = 0

\* what every step of the page records
PageStep(name, arg, n, cbs) ==
    /\ op' = [name |-> name, arg |-> arg]
    /\ rendered' = n
    /\ renderCount' = renderCount + n
    /\ thrown' = "none"
    /\ calls' = cbs
    /\ returned' = None
    /\ UNCHANGED <<timeout, timers, burst, env, destroyed>>

\* a user event: the page handles MaxPageSteps of them
UserEvent ==
    /\ steps < MaxPageSteps
    /\ steps' = steps + 1

\* a change event of the startDate or endDate input: updateDateRange() runs up
\* to the first await inside loadDashboardData
ChangeDate(field, value) ==
    /\ UserEvent
    /\ page.dateInputs[field] # Some(value)
    /\ page' = loadDashboardData([page EXCEPT !.dateInputs[field] = Some(value)])
    /\ PageStep("dateChange", <<field, value>>, 0, << >>)
    /\ UNCHANGED <<view, canvas, surface, listeners>>

\* "allTimelineData = await timelineResponse.json()": the responses of a run
\* have arrived and the timeline body is parsed
TimelineParsed ==
    \E run \in page.runs :
        /\ run.stage = "fetching"
        /\ page' = [page EXCEPT !.allTimelineData = Some(TimelineResponse(run.params)),
                                !.runs = (@ \ {run}) \cup {[run EXCEPT !.stage = "parsed"]}]
        /\ PageStep("timelineParsed", <<run.id>>, 0, << >>)
        /\ UNCHANGED <<view, canvas, surface, listeners, steps>>

\* the number of ProjectTimeline objects constructed so far
ObjectCount(pg) == Len(pg.superseded) + (IF IsSome(pg.timelineInstance) THEN 1 ELSE 0)

\* populateProjectFilter: the select's options are rebuilt from /api/projects,
\* which leaves "All Projects" selected
populateProjectFilter == [options |-> {"all"} \cup ProjectFilterInputs, value |-> "all"]

\* the rest of loadDashboardData after the other two bodies are parsed: the
\* project filter is repopulated and a new ProjectTimeline is constructed on the canvas from the global allTimelineData
\* and assigned to timelineInstance.  The run ends here: the loadCharts() it
\* still awaits writes neither the view nor the globals of this model.
TimelineCreated ==
    \E run \in page.runs :
        /\ run.stage = "parsed"
        /\ LET allTimelineData == Get(page.allTimelineData)
               made == construct(canvas, listeners, ObjectCount(page) + 1, renderCount + 1,
                                 transformTimelineData(allTimelineData), DashboardOptions, env)
           IN  IF Len(allTimelineData.projects) > 0
               THEN /\ view' = made.view
                    /\ canvas' = made.canvas
                    /\ surface' = made.surface
                    /\ listeners' = made.listeners
                    /\ page' = [page EXCEPT
                                  !.projectFilter = populateProjectFilter,
                                  !.timelineInstance = Some(ObjectCount(page) + 1),
                                  !.superseded = IF IsSome(page.timelineInstance)
                                                 THEN Append(@, view) ELSE @,
                                  !.runs = @ \ {run}]
                    /\ PageStep("timelineCreated", <<run.id>>, 1, << >>)
               ELSE /\ page' = [page EXCEPT !.projectFilter = populateProjectFilter,
                                             !.runs = @ \ {run}]
                    /\ PageStep("timelineCreated", <<run.id>>, 0, << >>)
                    /\ UNCHANGED <<view, canvas, surface, listeners>>
        /\ UNCHANGED steps

\* a call of a method of timelineInstance that ends in render()
PageRendered(name, arg, v) ==
    LET r == Render(v, canvas)
    IN  /\ view' = r.view
        /\ canvas' = [canvas EXCEPT !.textBaseline = r.textBaseline]
        /\ surface' = r.surface
        /\ PageStep(name, arg, 1, << >>)

\* the user selects another option of the project filter; its change handler
\* runs up to its first await: filterTimelineByProject
ChangeProjectFilter(value) ==
    /\ UserEvent
    /\ value \in page.projectFilter.options
    /\ value # page.projectFilter.value
    /\ page' = [page EXCEPT !.currentProjectFilter = value, !.projectFilter.value = value]
    /\ IF page.timelineInstance = None
       THEN /\ PageStep("filterChange", <<value>>, 0, << >>)
            /\ UNCHANGED <<view, canvas, surface>>
       ELSE PageRendered("filterChange", <<value>>,
                         [view EXCEPT !.filteredProjectIds =
                             IF value = "all" THEN None ELSE Some(<<parseInt(value)>>)])
    /\ UNCHANGED listeners

\* the change handler of a granularity radio button
ChangeGranularity(value) ==
    /\ UserEvent
    /\ IF page.timelineInstance = None \/ value \notin {"weekly", "monthly", "quarterly"}
       THEN /\ PageStep("granularityChange", <<value>>, 0, << >>)
            /\ UNCHANGED <<view, canvas, surface>>
       ELSE PageRendered("granularityChange", <<value>>,
                         [view EXCEPT !.options.granularity = value])
    /\ UNCHANGED <<listeners, page>>

\* the object a bound listener calls its method on
ObjectOf(this) ==
    IF page.timelineInstance = Some(this) THEN view ELSE page.superseded[this]

\* a click event on the canvas: every registered click listener runs, in the
\* order of registration
RECURSIVE DispatchClick(_, _, _)
DispatchClick(this, x, y) ==
    IF this > ObjectCount(page) THEN << >>
    ELSE (IF \E l \in listeners : /\ l.target = "canvas" /\ l.type = "click"
                                  /\ l.fn = BoundTo("handleClick", this)
          THEN handleClickCalls(ObjectOf(this), env.tz, x, y)
          ELSE << >>)
         \o DispatchClick(this + 1, x, y)

PageClick(x, y) ==
    /\ UserEvent
    /\ PageStep("click", <<x, y>>, 0, DispatchClick(1, x, y))
    /\ UNCHANGED <<view, canvas, surface, listeners, page>>

\* showModuleDrillDown(date, weekNum) up to its await: the fetch is issued
ShowModuleDrillDown(date) ==
    /\ UserEvent
    /\ page' = [page EXCEPT
                  !.requests = @ \cup {[id |-> page.issued + 1, date |-> date,
                                        weekNum |-> getWeekNumber(env.tz, date)]},
                  !.issued = @ + 1]
    /\ PageStep("showModuleDrillDown", <<date>>, 0, << >>)
    /\ UNCHANGED <<view, canvas, surface, listeners>>

\* what the modal shows once it is filled from the response to a request
ModalFor(request) ==
    [title |-> <<request.weekNum, request.date>>, modules |-> WeekDetails(request.date)]

\* variant: a response is applied only when no later request was issued
DrillDownResponse_LatestOnly ==
    \E request \in page.requests :
        /\ page' = [page EXCEPT
                      !.requests = @ \ {request},
                      !.resolved = Append(@, request),
                      !.modal = IF request.id = page.issued
                                THEN Some(ModalFor(request)) ELSE @]
        /\ PageStep("drillDownResponse", <<request.id>>, 0, << >>)
        /\ UNCHANGED <<view, canvas, surface, listeners, steps>>

\* the response of a drill-down fetch is parsed: the modal's title, alerts,
\* table and chart are filled from it and the modal is shown
DrillDownResponse ==
    \E request \in page.requests :
        /\ page' = [page EXCEPT
                      !.requests = @ \ {request},
                      !.resolved = Append(@, request),
                      !.modal = Some(ModalFor(request))]
        /\ PageStep("drillDownResponse", <<request.id>>, 0, << >>)
        /\ UNCHANGED <<view, canvas, surface, listeners, steps>>

DashboardNext ==
    \/ \E value \in StartDateInputs : ChangeDate("startDate", value)
    \/ \E value \in EndDateInputs : ChangeDate("endDate", value)
    \/ TimelineParsed
    \/ TimelineCreated
    \/ \E value \in ProjectFilterInputs : ChangeProjectFilter(value)
    \/ \E value \in PageGranularityInputs : ChangeGranularity(value)
    \/ \E p \in PageClickPoints : PageClick(p[1], p[2])

DashboardSpec == DashboardInit /\ [][DashboardNext]_vars

\* the drill-down alone: calls of showModuleDrillDown and their responses
DrillDownNext ==
    \/ \E date \in DrillDownDates : ShowModuleDrillDown(date)
    \/ DrillDownResponse

DrillDownSpec == DashboardInit /\ [][DrillDownNext]_vars

-----------------------------------------------------------------------------
(* Properties *)

EventNames == {"click", "mousemove", "mouseleave", "resize", "relayout"}

RECURSIVE CountPhases(_, _)
CountPhases(projects, i) ==
    IF i > Len(projects) THEN 0
    ELSE Len(PhasesOf(projects[i])) + CountPhases(projects, i + 1)

\* two element objects that record the same bar
SameBar(a, b) == a.project = b.project /\ a.phase = b.phase /\ a.bounds = b.bounds

\* the element list holds exactly the bars of the drawing pass
ElementsAreBars(elements, bars) ==
    /\ Len(elements) = Len(bars)
    /\ \A i \in 1..Len(bars) : SameBar(elements[i], bars[i])

\* C1: after a step that rendered, the hit-test element list holds exactly one
\* element per phase bar the render drew, so it is never longer than the number
\* of phases of the visible projects.
C1_ElementsRebuiltEveryRender ==
    rendered = 1 =>
        /\ ElementsAreBars(view.elements, surface.bars)
        /\ Len(view.elements) <= CountPhases(getFilteredProjects(view), 1)

\* C2: a pointer-move that follows a pointer-move and lands inside the bar that
\* is already hovered causes no render.
C2_NoRenderInsideHoveredBar ==
    [][(/\ op.name = "mousemove"
        /\ op'.name = "mousemove"
        /\ IsSome(view.hoveredElement)
        /\ LET found == findElementAtPosition(view, op'.arg[1], op'.arg[2])
           IN  IsSome(found) /\ SameBar(Get(found), Get(view.hoveredElement)))
       => rendered' = 0]_vars

\* C3: once destroy() has run, a click, pointer-move, pointer-leave or resize
\* event changes no view state, draws nothing and invokes no callback.
C3_NoEventAfterDestroy ==
    [][(destroyed /\ op'.name \in EventNames)
       => (view' = view /\ canvas' = canvas /\ surface' = surface
           /\ timeout' = timeout /\ calls' = << >>)]_vars

\* C4: with a zero span every bar a render records sits at x = left with the
\* minimum width of 2, and no coordinate is NaN or infinite.
C4_ZeroSpanCollapsesToLeft ==
    (rendered = 1 /\ view.totalDays = 0) =>
        \A i \in 1..Len(surface.bars) :
            /\ surface.bars[i].bounds.x = I(view.padding.left)
            /\ surface.bars[i].bounds.width = I(2)

\* the projects the filter lets through, in dataset order
VisibleProjects(v) ==
    IF v.filteredProjectIds = None THEN v.data.projects
    ELSE SelectSeq(v.data.projects,
                   LAMBDA p : \E k \in 1..Len(Get(v.filteredProjectIds)) :
                                  Get(v.filteredProjectIds)[k] = p.projectId)

\* C5: a render draws one label per project of the dataset restricted to the
\* most recent filter, in dataset order, each in its own lane; filterByProject(id)
\* makes {id} the filter, showAllProjects() removes it, nothing else changes it.
C5_LabelsFollowFilter ==
    /\ [](rendered = 1 =>
            /\ Len(surface.labels) = Len(VisibleProjects(view))
            /\ \A i \in 1..Len(surface.labels) :
                /\ surface.labels[i].project = VisibleProjects(view)[i].projectId
                /\ surface.labels[i].y = view.padding.top + (i - 1) * view.rowHeight + 20)
    /\ [][/\ op'.name = "filterByProject" =>
                (rendered' = 1 /\ view'.filteredProjectIds = Some(<<op'.arg[1]>>))
          /\ op'.name = "showAllProjects" =>
                (rendered' = 1 /\ view'.filteredProjectIds = None)
          /\ op'.name \notin {"filterByProject", "showAllProjects"} =>
                view'.filteredProjectIds = view.filteredProjectIds]_vars

C5_Witness ==
    /\ op.name = "filterByProject"
    /\ view.filteredProjectIds = Some(<<2>>)
    /\ Len(view.data.projects) = 2
    /\ Len(surface.labels) = 1
    /\ surface.labels[1].project = 2
    /\ surface.labels[1].y = view.padding.top + 20

NoProjectHasId(v, id) == \A i \in 1..Len(v.data.projects) : v.data.projects[i].projectId # id

\* C6: filterByProject(id) with an id of no project throws nothing, draws no
\* label and no bar, and leaves no phase bar hit-testable.
C6_UnknownIdEmptiesPlot ==
    (op.name = "filterByProject" /\ NoProjectHasId(view, op.arg[1])) =>
        /\ thrown = "none"
        /\ surface.labels = << >>
        /\ surface.bars = << >>
        /\ \A p \in Points : findElementAtPosition(view, p[1], p[2]) = None

\* C7: setGranularity(g) with g outside the three values changes nothing, throws
\* nothing and renders nothing; with g inside it stores g and renders once; so
\* granularity is always one of the three values.
C7_SetGranularityValidates ==
    /\ [](view.options.granularity \in Granularities)
    /\ [][op'.name = "setGranularity" =>
            IF op'.arg[1] \in Granularities
            THEN /\ view'.options.granularity = op'.arg[1]
                 /\ rendered' = 1
                 /\ thrown' = "none"
            ELSE /\ view' = view
                 /\ canvas' = canvas
                 /\ surface' = surface
                 /\ rendered' = 0
                 /\ thrown' = "none"]_vars

C7_Witness ==
    /\ op.name = "setGranularity"
    /\ op.arg[1] = "daily"
    /\ rendered = 0
    /\ view.options.granularity = "weekly"

Hits(v, x, y) == { i \in 1..Len(v.elements) : Contains(v.elements[i], x, y) }

\* C9: findElementAtPosition returns the most recently recorded element whose
\* box holds the point (of two overlapping bars the one drawn later), and null
\* when no recorded box holds it.
C9_LastDrawnWins ==
    \A p \in Points :
        LET hits == Hits(view, p[1], p[2])
            found == findElementAtPosition(view, p[1], p[2])
        IN  IF hits = {} THEN found = None
            ELSE /\ IsSome(found)
                 /\ \E i \in hits : /\ Get(found) = view.elements[i]
                                    /\ \A j \in hits : j <= i

\* two bars of one render overlap at a point, and the later one is found
C9_Witness ==
    \E p \in Points :
        \E i, j \in Hits(view, p[1], p[2]) :
            /\ i < j
            /\ view.elements[i].gen = view.elements[j].gen
            /\ view.elements[i].phase # view.elements[j].phase
            /\ findElementAtPosition(view, p[1], p[2]) = Some(view.elements[j])

\* C10: render() called right after a step that rendered, with no state change
\* in between, draws the same thing and leaves the view as it was, hit-test
\* results included.
C10_RenderIdempotent ==
    [][(rendered = 1 /\ op'.name = "render") =>
        /\ surface' = surface
        /\ view' = view
        /\ \A p \in Points :
             findElementAtPosition(view', p[1], p[2]) = findElementAtPosition(view, p[1], p[2])]_vars

\* the bar a click at the pointer of the step lands on, if any
ClickedBar == findElementAtPosition(view, op'.arg[1], op'.arg[2])

PhaseClick(el) == [callback |-> "onProjectClick", args |-> <<el.project, el.phase>>]

\* C11: a click where hit-testing finds a phase bar calls onProjectClick once,
\* with the project and the phase of that bar, and does not call onDateClick.
C11_BarClickCallsProjectClick ==
    [][(op'.name = "click" /\ IsSome(ClickedBar) /\ view.options.onProjectClick)
       => calls' = << PhaseClick(Get(ClickedBar)) >>]_vars

C11_Witness ==
    /\ op.name = "click"
    /\ op.arg = <<320, 90>>
    /\ Len(calls) = 1
    /\ calls[1].callback = "onProjectClick"
    /\ calls[1].args[1] = 1
    /\ calls[1].args[2].phase = "Plan"

\* the date under pointer x: startDate plus the whole days that the pointer's
\* share of the plot width covers
DateUnderPointer(v, x) ==
    v.startDate + (((x - v.padding.left) * v.totalDays) \div v.plotWidth) * msPerDay

\* C12: a click inside the plot area where no bar is hit calls onDateClick once,
\* with the date under the pointer and the week number of that date, and does
\* not call onProjectClick.
C12_PlotClickCallsDateClick ==
    [][(/\ op'.name = "click"
        /\ ~IsSome(ClickedBar)
        /\ isInPlotArea(view, op'.arg[1], op'.arg[2])
        /\ view.options.onDateClick
        /\ view.plotWidth > 0)
       => calls' = << [callback |-> "onDateClick",
                       args |-> << Some(DateUnderPointer(view, op'.arg[1])),
                                   Some(getWeekNumber(env.tz, DateUnderPointer(view, op'.arg[1]))) >>] >>]_vars

C12_Witness ==
    /\ op.name = "click"
    /\ op.arg = <<300, 300>>
    /\ view.totalDays = 10
    /\ Len(calls) = 1
    /\ calls[1].callback = "onDateClick"
    /\ calls[1].args = << Some(Jan(2)), Some(1) >>

\* C13: a click outside the plot rectangle invokes no callback and changes no
\* view state.
C13_ClickOutsidePlotIsNoOp ==
    [][(op'.name = "click" /\ ~isInPlotArea(view, op'.arg[1], op'.arg[2]))
       => (calls' = << >> /\ view' = view)]_vars

\* C14: a resize event leaves exactly one timer pending, set to the full delay;
\* a relayout runs only when 250 ms have passed since the last resize event,
\* leaves no timer pending, and happens once per burst of resize events.
C14_ResizeDebounced ==
    /\ [](Cardinality(timers) <= 1)
    /\ [](burst.relayouts <= 1)
    /\ [][op'.name = "resize"
          => timers' = {[id |-> Get(timeout'), remaining |-> ResizeDelay]}]_vars
    /\ [][op'.name = "relayout"
          => (burst.since >= ResizeDelay /\ timers' = {})]_vars

C14_Witness ==
    /\ op.name = "relayout"
    /\ rendered = 1
    /\ burst = [events |-> 2, since |-> 250, relayouts |-> 1]
    /\ timers = {}

\* the operations that change the data or the state the layout depends on
ChangeNames == {"setGranularity", "filterByProject", "showAllProjects",
                "updateDateRange", "updateData", "relayout"}

\* C15: after setGranularity, filterByProject, showAllProjects, updateDateRange,
\* updateData or a resize relayout has completed, hoveredElement is null and
\* no tooltip is drawn.
C15_ChangeClearsHover ==
    (op.name \in ChangeNames /\ rendered = 1)
        => (view.hoveredElement = None /\ surface.tooltip = None)

\* C16: updateData leaves filteredProjectIds and the granularity as they were,
\* and a set filter becomes null only by showAllProjects.
C16_FilterSurvivesUpdateData ==
    [][/\ op'.name = "updateData"
            => /\ view'.filteredProjectIds = view.filteredProjectIds
               /\ view'.options.granularity = view.options.granularity
       /\ (IsSome(view.filteredProjectIds) /\ view'.filteredProjectIds = None)
            => op'.name = "showAllProjects"]_vars

C16_Witness ==
    /\ op.name = "updateData"
    /\ thrown = "none"
    /\ view.data = DataB
    /\ view.filteredProjectIds = Some(<<2>>)
    /\ view.options.granularity = "monthly"
    /\ Len(surface.labels) = 1

\* C17: when the canvas cannot be resolved the constructor throws before any
\* listener is attached, any layout is computed or anything is drawn.
C17_ConstructionFailsFast ==
    (op.name = "constructor" /\ ~env.canvasExists)
        => /\ thrown = "Error"
           /\ listeners = {}
           /\ rendered = 0
           /\ surface = Cleared
           /\ view.plotWidth = 0
           /\ view.elements = << >>

C17_Witness ==
    /\ op.name = "constructor"
    /\ ~env.canvasExists
    /\ thrown = "Error"
    /\ listeners = {}

\* getTimePeriods of the view's range at granularity g
PeriodsAt(g) == getTimePeriods([view EXCEPT !.options.granularity = g], env.tz)

\* C18: for a range with minDate <= maxDate, getTimePeriods yields at most as
\* many periods at monthly granularity as at weekly granularity.
C18_MonthlyNoMoreThanWeekly ==
    (op.name = "getTimePeriods" /\ view.startDate <= view.endDate)
        => /\ returned = Some(PeriodsAt(view.options.granularity))
           /\ Len(PeriodsAt("monthly")) <= Len(PeriodsAt("weekly"))

C18_Witness ==
    /\ op.name = "getTimePeriods"
    /\ view.options.granularity = "monthly"
    /\ env.tz = "America/New_York"
    /\ view.startDate = DayOf(2021, 5, 28) * msPerDay
    /\ view.endDate = DayOf(2021, 6, 28) * msPerDay
    /\ Len(Get(returned)) = 2
    /\ Len(PeriodsAt("weekly")) = 5

\* the dataset of the scenario: 2024-01-01 to 2024-01-31, P+M over the first week
ScenarioData == RangeData(DayOf(2024, 0, 1), 30)

\* C19: constructed over the January 2024 dataset at weekly granularity, the
\* axis shows five periods labelled W1 to W5 and the P+M bar recorded for
\* hit-testing starts exactly at the left padding.
C19_JanuaryScenario ==
    (op.name = "constructor" /\ view.data = ScenarioData
     /\ view.options.granularity = "weekly")
        => /\ [i \in 1..Len(Get(surface.axis).periods) |-> Get(surface.axis).periods[i].label]
                = << <<"W", 1>>, <<"W", 2>>, <<"W", 3>>, <<"W", 4>>, <<"W", 5>> >>
           /\ Len(view.elements) = 1
           /\ view.elements[1].phase.phase = "P+M"
           /\ view.elements[1].bounds.x = I(view.padding.left)

\* the Thursday of the Monday-to-Sunday week that holds the day
IsoThursday(day) == day - ((getDay(day) + 6) % 7) + 3

\* the ISO 8601 week number: weeks run from Monday, week 1 holds the year's
\* first Thursday
IsoWeek(day) ==
    LET january1 == YearOf(IsoThursday(day)).first
        firstThursday == january1 + ((11 - getDay(january1)) % 7)
    IN  ((IsoThursday(day) - firstThursday) \div 7) + 1

\* C20: getWeekNumber of a calendar day is the day's ISO week number;
\* 2024-01-01 is in week 1 and 2023-12-31 in week 52.
C20_WeekNumberIsIso ==
    op.name = "getWeekNumber"
        => /\ returned = Some(IsoWeek(op.arg[1]))
           /\ op.arg[1] = DayOf(2024, 0, 1) => returned = Some(1)
           /\ op.arg[1] = DayOf(2023, 11, 31) => returned = Some(52)

\* getFullYear() * 12 + getMonth() of a date, in local time
MonthIndex(tz, t) ==
    LET f == Fields(LocalDay(tz, t))
    IN  f.year * 12 + f.month

StepMonths(g) == IF g = "monthly" THEN 1 ELSE 3

\* b starts exactly one step after a: seven calendar days, one month, or
\* three months later
OneStepApart(tz, g, a, b) ==
    IF g = "weekly"
    THEN LocalDay(tz, b) = LocalDay(tz, a) + 7
    ELSE MonthIndex(tz, b) = MonthIndex(tz, a) + StepMonths(g)

\* t is no later than one step after start
WithinOneStep(tz, g, start, t) ==
    /\ start <= t
    /\ IF g = "weekly"
       THEN LocalDay(tz, t) < LocalDay(tz, start) + 7
       ELSE MonthIndex(tz, t) <= MonthIndex(tz, start) + StepMonths(g)

\* C21: for minDate <= maxDate getTimePeriods returns a non-empty sequence of
\* periods whose start dates increase strictly, begin at minDate, lie in
\* [minDate, maxDate] and advance by exactly one step (7 days, 1 month,
\* 3 months), with maxDate inside the last period.
C21_PeriodsCoverRange ==
    (op.name = "getTimePeriods" /\ view.startDate <= view.endDate)
        => LET periods == Get(returned)
               g == view.options.granularity
           IN  /\ Len(periods) > 0
               /\ periods[1].date = view.startDate
               /\ \A i \in 1..Len(periods) :
                    /\ view.startDate <= periods[i].date
                    /\ periods[i].date <= view.endDate
               /\ \A i \in 1..(Len(periods) - 1) :
                    /\ periods[i].date < periods[i + 1].date
                    /\ OneStepApart(env.tz, g, periods[i].date, periods[i + 1].date)
               /\ WithinOneStep(env.tz, g, periods[Len(periods)].date, view.endDate)

\* the element render pass gen recorded for this phase of this project
RecordedBar(v, gen, project, phase) ==
    { i \in 1..Len(v.elements) :
        /\ v.elements[i].gen = gen
        /\ v.elements[i].type = "phase"
        /\ v.elements[i].project = project.projectId
        /\ v.elements[i].phase = phase }

\* C22: after a render, every phase of every visible project has a recorded
\* element tagged with its project and phase whose left edge is
\* dateToX(startDate) and whose width is max(dateToX(endDate) - dateToX(startDate), 2),
\* which is at least 2.
C22_BarGeometry ==
    rendered = 1 =>
        \A p \in 1..Len(getFilteredProjects(view)) :
            LET project == getFilteredProjects(view)[p]
            IN  \A k \in 1..Len(PhasesOf(project)) :
                    LET phase == PhasesOf(project)[k]
                        startX == dateToX(view, phase.startDate)
                        endX == dateToX(view, phase.endDate)
                        recorded == RecordedBar(view, renderCount, project, phase)
                    IN  /\ recorded # {}
                        /\ \A i \in recorded :
                            /\ view.elements[i].bounds.x = startX
                            /\ view.elements[i].bounds.y = LaneY(view, p - 1)
                            /\ view.elements[i].bounds.width = MathMax(NumSub(endX, startX), I(2))
                            /\ NumLe(I(2), view.elements[i].bounds.width)

\* C23: a drawn tooltip lies fully inside the canvas: its rectangle, in the
\* pixels of the canvas, has 0 <= left, right <= canvas.width, 0 <= top and
\* bottom <= canvas.height.
C23_TooltipInsideSurface ==
    (rendered = 1 /\ IsSome(surface.tooltipRect)) =>
        LET r == Get(surface.tooltipRect)
            left == NumMul(r.x, canvas.scale)
            right == NumMul(NumAdd(r.x, I(r.width)), canvas.scale)
        IN  /\ NumLe(I(0), left)
            /\ NumLe(right, I(canvas.width))
            /\ 0 <= r.y * canvas.scale
            /\ (r.y + r.height) * canvas.scale <= canvas.height

\* C24: a pointer-leave event leaves hoveredElement null and no tooltip drawn,
\* whatever the state before it, and renders exactly when an element was
\* hovered before the event.
C24_LeaveGoesIdle ==
    [][op'.name = "mouseleave" =>
        /\ view'.hoveredElement = None
        /\ surface'.tooltip = None
        /\ surface'.tooltipRect = None
        /\ canvas'.cursor = "default"
        /\ thrown' = "none"
        /\ rendered' = (IF IsSome(view.hoveredElement) THEN 1 ELSE 0)]_vars

C24_Witness ==
    /\ op.name = "mouseleave"
    /\ rendered = 1
    /\ view.hoveredElement = None
    /\ surface.tooltip = None
    /\ IsSome(surface.axis)

\* C25: a drill-down request stays pending until its response arrives, whatever
\* is requested after it; every response is applied to the modal when it
\* arrives; so the modal shows the response that arrived last, whichever
\* request it answers.
C25_LastResponseWins ==
    /\ [](Cardinality(page.requests) + Len(page.resolved) = page.issued)
    /\ [](page.resolved # << >> =>
            page.modal = Some(ModalFor(page.resolved[Len(page.resolved)])))
    /\ [][op'.name = "showModuleDrillDown" =>
            (page.requests \subseteq page'.requests /\ page'.modal = page.modal)]_vars
    /\ [][op'.name = "drillDownResponse" =>
            \E request \in page.requests :
                /\ request.id = op'.arg[1]
                /\ page'.modal = Some(ModalFor(request))
                /\ page'.requests = page.requests \ {request}]_vars

\* B was requested after A, B's response arrived first, and the modal shows A
C25_Witness ==
    /\ op.name = "drillDownResponse"
    /\ Len(page.resolved) = 2
    /\ page.requests = {}
    /\ page.resolved[1].id = 2
    /\ page.resolved[2].id = 1
    /\ page.resolved[1].date # page.resolved[2].date
    /\ page.modal = Some(ModalFor(page.resolved[2]))

\* the objects that have a listener registered on the canvas or the window
ListeningObjects == { l.fn.this : l \in listeners }

\* C26: once a timeline exists, the object timelineInstance refers to is the
\* only one with listeners on the canvas and the window, whatever number of
\* loads have run; so a click on a phase bar calls onProjectClick exactly once.
C26_SingleActiveTimeline ==
    /\ [](IsSome(page.timelineInstance) => ListeningObjects = {Get(page.timelineInstance)})
    /\ [][(/\ op'.name = "click"
           /\ IsSome(page.timelineInstance)
           /\ IsSome(findElementAtPosition(view, op'.arg[1], op'.arg[2])))
          => calls' = << PhaseClick(Get(findElementAtPosition(view, op'.arg[1], op'.arg[2]))) >>]_vars

\* C27: when a load started while an earlier one was still fetching, then once
\* every run has finished allTimelineData and the timeline's data are those
\* fetched for currentDateRange.
C27_LatestRangeWins ==
    (page.runs = {} /\ page.overlapped /\ IsSome(page.timelineInstance)) =>
        /\ page.allTimelineData = Some(TimelineResponse(page.currentDateRange))
        /\ view.data = transformTimelineData(TimelineResponse(page.currentDateRange))

\* C30: once no load is pending, the timeline shows all projects exactly when
\* currentProjectFilter is 'all', and otherwise its filteredProjectIds holds
\* exactly the selected project id.
C30_TimelineFilterFollowsPage ==
    (page.runs = {} /\ IsSome(page.timelineInstance)) =>
        IF page.currentProjectFilter = "all"
        THEN getFilteredProjects(view) = view.data.projects
        ELSE view.filteredProjectIds = Some(<< parseInt(page.currentProjectFilter) >>)

\* C28: in every state of a constructed view the plot rectangle is the canvas
\* inset by the padding:
\* plotWidth = canvas.width - padding.left - padding.right and
\* plotHeight = canvas.height - padding.top - padding.bottom.
C28_PlotIsInsetSurface ==
    ~ConstructionFailed =>
        /\ view.plotWidth = canvas.width - view.padding.left - view.padding.right
        /\ view.plotHeight = canvas.height - view.padding.top - view.padding.bottom

\* the steps that are neither updateDateRange nor updateData
SpanKeepers == {"setGranularity", "filterByProject", "showAllProjects", "mousemove",
                "mouseleave", "click", "resize", "relayout"}

\* C29: setGranularity, filterByProject, showAllProjects, pointer events and a
\* debounced resize relayout leave startDate, endDate and totalDays as they
\* were; updateDateRange leaves a bound whose argument is omitted unchanged;
\* and totalDays = daysBetween(startDate, endDate) in every state.
C29_DateRangeStaysActive ==
    /\ [](view.totalDays = calculateDaysBetween(view.startDate, view.endDate))
    /\ [][op'.name \in SpanKeepers =>
            /\ view'.startDate = view.startDate
            /\ view'.endDate = view.endDate
            /\ view'.totalDays = view.totalDays]_vars
    /\ [][op'.name = "updateDateRange" =>
            /\ op'.arg[1] = None => view'.startDate = view.startDate
            /\ op'.arg[2] = None => view'.endDate = view.endDate
            /\ IsSome(op'.arg[1]) => view'.startDate = Get(op'.arg[1])
            /\ IsSome(op'.arg[2]) => view'.endDate = Get(op'.arg[2])]_vars

=============================================================================
